---- MODULE Spec2Model ----
(***************************************************************************)
(* A model of the concurrent directed graph store (Graph in lib.rs) and of *)
(* the immutable view it freezes into (ReadOnlyGraph in read_only.rs).     *)
(*                                                                         *)
(* Each DashMap operation (insert, get, contains_key, entry..push) holds   *)
(* one shard lock for its whole duration and is one atomic step; the       *)
(* fetch_add on the counter is one atomic step.  add_edge is the sequence  *)
(* of those steps and other threads may run between any two of them.       *)
(* The counter is an AtomicU64; the model caps the number of add_edge      *)
(* calls far below 2^64, so its wrap-around is never reached.              *)
(***************************************************************************)
EXTENDS Integers, Sequences, FiniteSets, TLC

\* ---------------------------------------------------------------- bounds
Keys == {1, 2}
Vals == {"Alice", "Bob"}
EdgeVals == {"Follows", "Blocks"}
Threads == {"t1", "t2"}
\* add_edge calls issued on one store, over all threads
MaxEdges == 2
\* the same, in the runs where a reader calls the accessors of the store
MaxEdgesRead == 1
\* the same, in the runs where a thread clones the store
MaxEdgesClone == 1
\* calls made on the clone
MaxCallsDup == 1
\* add_edge calls issued in the runs with shard locks and fair scheduling
MaxEdgesFair == 2
\* Ref guards held at one time, over all threads
MaxGuards == 2
\* in the runs with a clone: the payloads given to the store and to the clone
ValsOfStore == {"Alice"}
ValsOfDup == {"Bob"}
EdgeValsOfStore == {"Follows"}
EdgeValsOfDup == {"Blocks"}
\* the capacities a store is created with
Capacities == {0, 10}

VARIABLES
    debug_assertions,  \* TRUE: debug_assert! is compiled in (non-optimized build)
    nodes,             \* Graph.nodes : key -> node payload
    edges,             \* Graph.edges : edge id -> edge payload
    to,                \* Graph.to    : key -> list of (edge id, source key)
    from,              \* Graph.from  : key -> list of (edge id, destination key)
    curr_edge_id,      \* Graph.curr_edge_id
    pc,                \* per thread: the next step of its add_edge call
    call,              \* per thread: the locals of its add_edge call
    returned,          \* history: the number of add_edge calls that have returned
    ret_ty,            \* the Rust type of the value in ret, "none" when there is none
    ret,               \* the value a call has just returned, until its caller takes it
    ro,                \* the ReadOnlyGraph, once into_read_only has run
    issued,            \* history: the add_edge calls in id-allocation order
    last_insert,       \* history: per key, the payload of the last insert
    sequential,        \* TRUE: calls are issued one at a time, none concurrently
    budget,            \* the number of add_edge calls the run may issue
    pre,               \* history (sequential runs): the store when add_edge began
    capacity,          \* the capacity the store was created with (0 by default)
    dup,               \* the Graph that clone builds, field by field
    clone_began,       \* history: the store when the clone in progress began, and
                       \*   whether the other threads were then inside no call
    clone_ended,       \* history: the counter when clone returned, and whether the
                       \*   store was written between the begin and the return
    guards             \* the Ref guards that callers hold: <<thread, map, key>>

\* the state that the operations of Next leave alone
other_vars == <<capacity, dup, clone_began, clone_ended, guards>>

vars == <<debug_assertions, nodes, edges, to, from, curr_edge_id, pc, call,
          returned, ret_ty, ret, ro, issued, last_insert, sequential, budget, other_vars, pre>>

store == <<nodes, edges, to, from, curr_edge_id>>

\* ------------------------------------------------------------ Option<T>
None == [tag |-> "None"]
Some(v) == [tag |-> "Some", val |-> v]
\* the outcome of a call that unwinds with a panic
Panic == [tag |-> "Panic"]

\* ------------------------------------------------------------- map ops
EmptyMap == [x \in {} |-> x]

\* DashMap::get / ReadOnlyView::get
MapGet(m, k) == IF k \in DOMAIN m THEN Some(m[k]) ELSE None

\* DashMap::contains_key / ReadOnlyView::contains_key
MapContains(m, k) == k \in DOMAIN m

\* DashMap::insert : the map afterwards (the old value is MapGet before)
MapInsert(m, k, v) == [x \in (DOMAIN m) \cup {k} |-> IF x = k THEN v ELSE m[x]]

EntryPush_mut(m, k, e) == MapInsert(m, k, <<e>>)
\* DashMap::entry(k).or_default().push(e)
EntryPush(m, k, e) ==
    MapInsert(m, k, Append(IF k \in DOMAIN m THEN m[k] ELSE << >>, e))

NoCall == [from |-> 0, to |-> 0, edge |-> "", edge_id |-> -1]
NoRet == [tag |-> "NoRet"]
\* the unit value ()
Unit == [tag |-> "Unit"]

\* add_edge calls that hold an id or may still allocate one
Begun == curr_edge_id + Cardinality({t \in Threads : pc[t] \in {"assert_to", "next_edge_id"}})
NoRO == [tag |-> "NoRO"]
NoPre == [tag |-> "NoPre"]
\* clone has not been called
NoDup == [tag |-> "NoDup"]

\* a call returns v, of Rust type ty, to its caller; a call that panics
\* returns Panic in place of a value of its type
Returns(ty, v) == ret_ty' = ty /\ ret' = v
Returned(ty, v) == ret_ty = ty /\ ret = v
NoResult == ret_ty = "none"

\* the store has not been consumed by into_read_only
Alive == ro = NoRO

\* thread t is inside no call
Quiet(t) == pc[t] \in {"idle", "panicked"}

\* thread t may issue a call: it is inside none, the previous result has been
\* taken and, in a sequential run, no other thread is inside a call
CanCall(t) ==
    /\ Alive
    /\ pc[t] = "idle"
    /\ NoResult
    /\ sequential => \A u \in Threads : Quiet(u)

\* thread t may take the next step of its call
CanStep(t, at) == pc[t] = at /\ NoResult

\* the store as add_edge finds it (recorded in sequential runs only)
PreOf(begins) ==
    IF sequential /\ begins
    THEN [edges |-> edges, from |-> from, to |-> to, curr_edge_id |-> curr_edge_id]
    ELSE NoPre

\* ------------------------------------------------------------------ Init
\* Graph::with_capacity_and_hasher / Graph::default: four empty maps, counter 0
InitStore ==
    /\ debug_assertions \in BOOLEAN
    /\ nodes = EmptyMap
    /\ edges = EmptyMap
    /\ to = EmptyMap
    /\ from = EmptyMap
    /\ curr_edge_id = 0
    /\ pc = [t \in Threads |-> "idle"]
    /\ call = [t \in Threads |-> NoCall]
    /\ returned = 0
    /\ ret_ty = "none"
    /\ ret = NoRet
    /\ ro = NoRO
    /\ issued = << >>
    /\ last_insert = EmptyMap
    /\ pre = NoPre
    /\ dup = NoDup
    /\ clone_began = NoPre
    /\ clone_ended = NoPre
    /\ guards = {}

\* Graph::new / Graph::default
Init == InitStore /\ sequential = FALSE /\ budget = MaxEdges /\ capacity = 0

InitSeq == InitStore /\ sequential = TRUE /\ budget = MaxEdges /\ capacity = 0

InitClone == InitStore /\ sequential = FALSE /\ budget = MaxEdgesClone /\ capacity = 0

InitFair == InitStore /\ sequential = FALSE /\ budget = MaxEdgesFair /\ capacity = 0

\* Graph::with_capacity
InitRead ==
    InitStore /\ sequential = FALSE /\ budget = MaxEdgesRead /\ capacity \in Capacities

\* the caller takes the returned value
take_result ==
    /\ ~NoResult
    /\ Returns("none", NoRet)
    /\ UNCHANGED <<debug_assertions, nodes, edges, to, from, curr_edge_id, pc, call,
                   returned, ro, issued, last_insert, sequential, budget, other_vars, pre>>

\* ---------------------------------------------------------------- insert
insert_mut(t, k, v) ==
    /\ CanCall(t)
    /\ nodes' = IF k \in DOMAIN nodes THEN nodes ELSE MapInsert(nodes, k, v)
    /\ Returns("Option<V>", MapGet(nodes, k))
    /\ last_insert' = MapInsert(last_insert, k, v)
    /\ UNCHANGED <<debug_assertions, edges, to, from, curr_edge_id, pc, call,
                   returned, ro, issued, sequential, budget, other_vars, pre>>
insert_resets_mut(t, k, v) ==
    /\ CanCall(t)
    /\ nodes' = MapInsert(nodes, k, v)
    /\ from' = IF k \in DOMAIN from THEN MapInsert(from, k, << >>) ELSE from
    /\ Returns("Option<V>", MapGet(nodes, k))
    /\ last_insert' = MapInsert(last_insert, k, v)
    /\ UNCHANGED <<debug_assertions, edges, to, curr_edge_id, pc, call,
                   returned, ro, issued, sequential, budget, other_vars, pre>>
\* Graph::insert(key, value) -> Option<V>
insert(t, k, v) ==
    /\ CanCall(t)
    /\ nodes' = MapInsert(nodes, k, v)
    /\ Returns("Option<V>", MapGet(nodes, k))
    /\ last_insert' = MapInsert(last_insert, k, v)
    /\ UNCHANGED <<debug_assertions, edges, to, from, curr_edge_id, pc, call,
                   returned, ro, issued, sequential, budget, other_vars, pre>>

\* -------------------------------------------------------------- add_edge
\* the value fetch_add returns, and the counter afterwards
next_edge_id_value_mut(c) == c + 1
next_edge_id_value(c) == c
next_edge_id_counter(c) == c + 1

\* the call begins.  Non-optimized build: the first debug_assert reads
\* nodes.contains_key(&from) and panics when it is false.
add_edge_assert_from(t, a, b, e) ==
    /\ CanCall(t)
    /\ debug_assertions
    /\ Begun < budget
    /\ IF MapContains(nodes, a)
       THEN /\ pc' = [pc EXCEPT ![t] = "assert_to"]
            /\ call' = [call EXCEPT ![t] = [from |-> a, to |-> b, edge |-> e, edge_id |-> -1]]
            /\ UNCHANGED <<ret_ty, ret>>
            /\ pre' = PreOf(TRUE)
       ELSE /\ pc' = [pc EXCEPT ![t] = "panicked"]
            /\ call' = call
            /\ Returns("()", Panic)
            /\ pre' = PreOf(FALSE)
    /\ UNCHANGED <<debug_assertions, nodes, edges, to, from, curr_edge_id, returned, ro,
                   issued, last_insert, sequential, budget, other_vars>>

add_edge_assert_to_mut(t) ==
    /\ CanStep(t, "assert_to")
    /\ pc' = [pc EXCEPT ![t] = "next_edge_id"]
    /\ UNCHANGED <<debug_assertions, nodes, edges, to, from, curr_edge_id, call, returned,
                   ret_ty, ret, ro, issued, last_insert, sequential, budget, other_vars, pre>>
add_edge_assert_to_from_mut(t) ==
    /\ CanStep(t, "assert_to")
    /\ IF MapContains(nodes, call[t].from)
       THEN /\ pc' = [pc EXCEPT ![t] = "next_edge_id"]
            /\ call' = call
            /\ UNCHANGED <<ret_ty, ret>>
            /\ pre' = pre
       ELSE /\ pc' = [pc EXCEPT ![t] = "panicked"]
            /\ call' = [call EXCEPT ![t] = NoCall]
            /\ Returns("()", Panic)
            /\ pre' = PreOf(FALSE)
    /\ UNCHANGED <<debug_assertions, nodes, edges, to, from, curr_edge_id, returned,
                   ro, issued, last_insert, sequential, budget, other_vars>>
\* the second debug_assert reads nodes.contains_key(&to)
add_edge_assert_to(t) ==
    /\ CanStep(t, "assert_to")
    /\ IF MapContains(nodes, call[t].to)
       THEN /\ pc' = [pc EXCEPT ![t] = "next_edge_id"]
            /\ call' = call
            /\ UNCHANGED <<ret_ty, ret>>
            /\ pre' = pre
       ELSE /\ pc' = [pc EXCEPT ![t] = "panicked"]
            /\ call' = [call EXCEPT ![t] = NoCall]
            /\ Returns("()", Panic)
            /\ pre' = PreOf(FALSE)
    /\ UNCHANGED <<debug_assertions, nodes, edges, to, from, curr_edge_id, returned,
                   ro, issued, last_insert, sequential, budget, other_vars>>

Allocate_mut(t, c) ==
    /\ curr_edge_id' = next_edge_id_counter(curr_edge_id)
    /\ call' = [call EXCEPT ![t] = [c EXCEPT !.edge_id = next_edge_id_value(curr_edge_id)]]
    /\ issued' = Append(issued, [id |-> next_edge_id_value(curr_edge_id),
                                 from |-> c.from, to |-> c.to, edge |-> c.edge])
    /\ pc' = [pc EXCEPT ![t] = "from_push"]
\* let edge_id = self.next_edge_id()
Allocate(t, c) ==
    /\ curr_edge_id' = next_edge_id_counter(curr_edge_id)
    /\ call' = [call EXCEPT ![t] = [c EXCEPT !.edge_id = next_edge_id_value(curr_edge_id)]]
    /\ issued' = Append(issued, [id |-> next_edge_id_value(curr_edge_id),
                                 from |-> c.from, to |-> c.to, edge |-> c.edge])
    /\ pc' = [pc EXCEPT ![t] = "edges_insert"]

\* non-optimized build: the allocation follows the two assertions
add_edge_next_edge_id(t) ==
    /\ CanStep(t, "next_edge_id")
    /\ Allocate(t, call[t])
    /\ UNCHANGED <<debug_assertions, nodes, edges, to, from, returned, ret_ty, ret, ro,
                   last_insert, sequential, budget, other_vars, pre>>

\* optimized build: the assertions are compiled out, the call begins with
\* the allocation
add_edge_release(t, a, b, e) ==
    /\ CanCall(t)
    /\ ~debug_assertions
    /\ Begun < budget
    /\ Allocate(t, [from |-> a, to |-> b, edge |-> e, edge_id |-> -1])
    /\ pre' = PreOf(TRUE)
    /\ UNCHANGED <<debug_assertions, nodes, edges, to, from, returned, ret_ty, ret, ro,
                   last_insert, sequential, budget, other_vars>>

add_edge_edges_insert_mut(t) ==
    /\ CanStep(t, "edges_insert")
    /\ edges' = MapInsert(edges, call[t].edge_id + 1, call[t].edge)
    /\ pc' = [pc EXCEPT ![t] = "from_push"]
    /\ UNCHANGED <<debug_assertions, nodes, to, from, curr_edge_id, call, returned,
                   ret_ty, ret, ro, issued, last_insert, sequential, budget, other_vars, pre>>
\* self.edges.insert(edge_id, edge)
add_edge_edges_insert(t) ==
    /\ CanStep(t, "edges_insert")
    /\ edges' = MapInsert(edges, call[t].edge_id, call[t].edge)
    /\ pc' = [pc EXCEPT ![t] = "from_push"]
    /\ UNCHANGED <<debug_assertions, nodes, to, from, curr_edge_id, call, returned,
                   ret_ty, ret, ro, issued, last_insert, sequential, budget, other_vars, pre>>

from_after_push_mut(m, c) == EntryPush(m, c.to, <<c.edge_id, c.to>>)
\* self.from.entry(from.clone()).or_default().push((edge_id, to.clone()))
from_after_push(m, c) == EntryPush(m, c.from, <<c.edge_id, c.to>>)

add_edge_from_push_mut(t) ==
    /\ CanStep(t, "from_push")
    /\ from' = from_after_push(from, call[t])
    /\ to' = EntryPush(to, call[t].to, <<call[t].edge_id, call[t].from>>)
    /\ pc' = [pc EXCEPT ![t] = "to_push"]
    /\ UNCHANGED <<debug_assertions, nodes, edges, curr_edge_id, call, returned,
                   ret_ty, ret, ro, issued, last_insert, sequential, budget, other_vars, pre>>
add_edge_from_push(t) ==
    /\ CanStep(t, "from_push")
    /\ from' = from_after_push(from, call[t])
    /\ pc' = [pc EXCEPT ![t] = "to_push"]
    /\ UNCHANGED <<debug_assertions, nodes, edges, to, curr_edge_id, call, returned,
                   ret_ty, ret, ro, issued, last_insert, sequential, budget, other_vars, pre>>

to_after_push_mut(m, c) == EntryPush(m, c.to, <<c.edge_id, c.to>>)
\* self.to.entry(to).or_default().push((edge_id, from)); the call returns ()
to_after_push(m, c) == EntryPush(m, c.to, <<c.edge_id, c.from>>)

add_edge_to_push(t) ==
    /\ CanStep(t, "to_push")
    /\ to' = to_after_push(to, call[t])
    /\ pc' = [pc EXCEPT ![t] = "idle"]
    /\ call' = [call EXCEPT ![t] = NoCall]
    /\ returned' = returned + 1
    /\ Returns("()", Unit)
    /\ pre' = PreOf(FALSE)
    /\ UNCHANGED <<debug_assertions, nodes, edges, from, curr_edge_id,
                   ro, issued, last_insert, sequential, budget, other_vars>>

\* ------------------------------------------------- accessors of the store
\* ids an accessor may be asked for: every id the store can hold and one more
EdgeIds == 0..budget

\* a call that only reads: it returns r and changes nothing
Reads(ty, r) ==
    /\ NoResult
    /\ Returns(ty, r)
    /\ UNCHANGED <<debug_assertions, nodes, edges, to, from, curr_edge_id, pc, call,
                   returned, ro, issued, last_insert, sequential, budget, other_vars, pre>>

len_value_mut(n) == Cardinality({n[k] : k \in DOMAIN n})
\* Graph::len
len_value(n) == Cardinality(DOMAIN n)
len == Alive /\ Reads("usize", len_value(nodes))

\* Graph::is_empty
is_empty_value(n) == DOMAIN n = {}
is_empty == Alive /\ Reads("bool", is_empty_value(nodes))

\* Graph::has_node
has_node_value(n, k) == MapContains(n, k)
has_node(k) == Alive /\ Reads("bool", has_node_value(nodes, k))

\* Graph::get_node
get_node_value(n, k) == MapGet(n, k)
get_node(k) == Alive /\ Reads("Option<Ref<K, V>>", get_node_value(nodes, k))

\* Graph::get_edge
get_edge_value(es, id) == MapGet(es, id)
get_edge(id) == Alive /\ Reads("Option<Ref<EdgeId, E>>", get_edge_value(edges, id))

\* Graph::edges_from
edges_from_mut(k) ==
    /\ Alive
    /\ NoResult
    /\ from' = IF k \in DOMAIN from THEN from ELSE MapInsert(from, k, << >>)
    /\ Returns("Option<Ref<K, Vec<(EdgeId, K)>>>", Some(from'[k]))
    /\ UNCHANGED <<debug_assertions, nodes, edges, to, curr_edge_id, pc, call,
                   returned, ro, issued, last_insert, sequential, budget, other_vars, pre>>
edges_from_value(f, k) == MapGet(f, k)
edges_from(k) == Alive /\ Reads("Option<Ref<K, Vec<(EdgeId, K)>>>", edges_from_value(from, k))

\* Graph::edges_to
edges_to_value(m, k) == MapGet(m, k)
edges_to(k) == Alive /\ Reads("Option<Ref<K, Vec<(EdgeId, K)>>>", edges_to_value(to, k))

\* ------------------------------------------------------- into_read_only
ReadOnlyOf_mut(n, e, t, f) == [nodes |-> n, edges |-> e, to |-> f, from |-> t]
\* the four maps of the store become the four maps of the view
ReadOnlyOf(n, e, t, f) == [nodes |-> n, edges |-> e, to |-> t, from |-> f]

\* Graph::into_read_only(self): self is taken by value, so no thread holds a
\* reference to the store, that is, none is inside a call
into_read_only ==
    /\ Alive
    /\ NoResult
    /\ \A t \in Threads : Quiet(t)
    /\ ro' = ReadOnlyOf(nodes, edges, to, from)
    /\ UNCHANGED <<debug_assertions, nodes, edges, to, from, curr_edge_id, pc, call,
                   returned, ret_ty, ret, issued, last_insert, sequential, budget, other_vars, pre>>

\* ------------------------------------------------ accessors of the view
\* ReadOnlyGraph::len
ro_len_value(r) == Cardinality(DOMAIN r.nodes)
ro_len == ~Alive /\ Reads("usize", ro_len_value(ro))

\* ReadOnlyGraph::has_node
ro_has_node_value(r, k) == MapContains(r.nodes, k)
ro_has_node(k) == ~Alive /\ Reads("bool", ro_has_node_value(ro, k))

\* ReadOnlyGraph::get_node
ro_get_node_value(r, k) == MapGet(r.nodes, k)
ro_get_node(k) == ~Alive /\ Reads("Option<&V>", ro_get_node_value(ro, k))

\* ReadOnlyGraph::get_edge
ro_get_edge_value(r, id) == MapGet(r.edges, id)
ro_get_edge(id) == ~Alive /\ Reads("Option<&E>", ro_get_edge_value(ro, id))

\* ReadOnlyGraph::edge_ids_from
edge_ids_from_value(r, k) == MapGet(r.from, k)
edge_ids_from(k) == ~Alive /\ Reads("Option<&Vec<(EdgeId, K)>>", edge_ids_from_value(ro, k))

\* ReadOnlyGraph::edge_ids_to
edge_ids_to_value(r, k) == MapGet(r.to, k)
edge_ids_to(k) == ~Alive /\ Reads("Option<&Vec<(EdgeId, K)>>", edge_ids_to_value(ro, k))

\* the closure of iter_edges_from and of iter: one adjacency entry of source
\* key k becomes a triple of payloads; each unwrap panics on an absent entry
Unwraps(r, entry) == entry[1] \in DOMAIN r.edges /\ entry[2] \in DOMAIN r.nodes
Triple(r, k, entry) == <<r.nodes[k], r.edges[entry[1]], r.nodes[entry[2]]>>

iter_edges_from_value_mut(r, k) ==
    IF ~MapContains(r.nodes, k) THEN None
    ELSE IF MapGet(r.from, k) = None THEN None
    ELSE LET l == r.from[k] IN
         IF \E i \in 1..Len(l) : ~Unwraps(r, l[i]) THEN Panic
         ELSE Some([i \in 1..Len(l) |-> Triple(r, k, l[Len(l) + 1 - i])])
\* ReadOnlyGraph::iter_edges_from, the returned iterator run to its end:
\* None from either `?`, Panic when an unwrap fails, else the triples in order
iter_edges_from_value(r, k) ==
    IF ~MapContains(r.nodes, k) THEN None
    ELSE IF edge_ids_from_value(r, k) = None THEN None
    ELSE LET l == r.from[k] IN
         IF \E i \in 1..Len(l) : ~Unwraps(r, l[i]) THEN Panic
         ELSE Some([i \in 1..Len(l) |-> Triple(r, k, l[i])])
iter_edges_from(k) == ~Alive /\ Reads("Option<impl Iterator>", iter_edges_from_value(ro, k))

\* the orders in which nodes.iter() may visit the keys: any (storage order)
Orders(S) == {o \in [1..Cardinality(S) -> S] : \A i, j \in DOMAIN o : i # j => o[i] # o[j]}

AllOrders == UNION {Orders(S) : S \in SUBSET Keys}

\* ReadOnlyGraph::iter: the adjacency entries it visits, as <<key, entry>>,
\* when nodes.iter() visits the keys in the given order; a key of nodes
\* without an outgoing list is filtered out
RECURSIVE IterVisits(_, _)
IterVisits(r, order) ==
    IF order = << >> THEN << >>
    ELSE LET k == Head(order)
             l == IF MapContains(r.from, k) THEN r.from[k] ELSE << >>
         IN [i \in 1..Len(l) |-> <<k, l[i]>>] \o IterVisits(r, Tail(order))

iter_value_mut(r, order) ==
    LET vs == IterVisits(r, order) IN
    IF \E i \in 1..Len(vs) : ~Unwraps(r, vs[i][2]) THEN Panic
    ELSE Some([i \in 1..Len(vs) |-> Triple(r, vs[i][2][2], vs[i][2])])
\* ReadOnlyGraph::iter run to its end
iter_value(r, order) ==
    LET vs == IterVisits(r, order) IN
    IF \E i \in 1..Len(vs) : ~Unwraps(r, vs[i][2]) THEN Panic
    ELSE Some([i \in 1..Len(vs) |-> Triple(r, vs[i][1], vs[i][2])])
iter(order) ==
    /\ ~Alive
    /\ order \in Orders(DOMAIN ro.nodes)
    /\ Reads("impl Iterator", iter_value(ro, order))

index_value_mut(r, k) ==
    IF ro_get_node_value(r, k) = None THEN Some("") ELSE ro_get_node_value(r, k)
\* Index<K>::index: get_node(&key).expect("Key not found"); the payload
\* referred to is written Some(payload), a panic Panic
index_value(r, k) ==
    IF ro_get_node_value(r, k) = None THEN Panic ELSE ro_get_node_value(r, k)
index(k) == ~Alive /\ Reads("&V", index_value(ro, k))

\* ------------------------------------------------------------------ clone
\* Clone for Graph builds the struct field by field, in the order the fields
\* are written; each DashMap::clone and the load of the counter is one step
\* and other threads may run between any two of them
CloneOrder_mut == <<"curr_edge_id", "nodes", "edges", "to", "from">>
CloneOrder == <<"nodes", "edges", "to", "from", "curr_edge_id">>

\* the store as a record
StoreNow ==
    [nodes |-> nodes, edges |-> edges, to |-> to, from |-> from, curr_edge_id |-> curr_edge_id]

\* DashMap::clone: a new map with the same entries
MapClone(m) == [k \in DOMAIN m |-> m[k]]

\* the value of one field of the new Graph
clone_field_value_mut(f) ==
    IF f = "curr_edge_id" THEN 0 ELSE MapClone(StoreNow[f])
clone_field_value(f) ==
    IF f = "curr_edge_id" THEN curr_edge_id ELSE MapClone(StoreNow[f])

\* the Graph under construction with no field built
NewDup ==
    [nodes |-> EmptyMap, edges |-> EmptyMap, to |-> EmptyMap, from |-> EmptyMap,
     curr_edge_id |-> 0, built |-> 0, calls |-> 0]

\* clone has returned
Cloned == dup # NoDup /\ dup.built = Len(CloneOrder)

\* Graph::clone(&self): thread t builds the next field of the new Graph; with
\* the last field built the call returns
clone(t) ==
    /\ NoResult
    /\ Alive
    /\ IF dup = NoDup THEN CanCall(t) ELSE pc[t] = "clone"
    /\ LET d == IF dup = NoDup THEN NewDup ELSE dup
           f == CloneOrder[d.built + 1]
           last == d.built + 1 = Len(CloneOrder)
       IN /\ dup' = [d EXCEPT ![f] = clone_field_value(f), !.built = @ + 1]
          /\ pc' = [pc EXCEPT ![t] = IF last THEN "idle" ELSE "clone"]
          /\ clone_began' = IF last THEN NoPre
                            ELSE IF dup = NoDup
                            THEN [store |-> StoreNow,
                                  quiet |-> \A u \in Threads \ {t} : Quiet(u)]
                            ELSE clone_began
          /\ clone_ended' = IF last
                            THEN [quiet |-> clone_began.quiet /\ clone_began.store = StoreNow,
                                  curr_edge_id |-> curr_edge_id]
                            ELSE clone_ended
    /\ UNCHANGED <<debug_assertions, nodes, edges, to, from, curr_edge_id, call, returned,
                   ret_ty, ret, ro, issued, last_insert, sequential, budget, capacity,
                   guards, pre>>

\* a thread may call an operation of the clone
CanCallDup(t) == Cloned /\ pc[t] = "idle" /\ NoResult /\ dup.calls < MaxCallsDup

dup_insert_mut(t, k, v) ==
    /\ CanCallDup(t)
    /\ dup' = [dup EXCEPT !.nodes = MapInsert(@, k, v), !.calls = @ + 1]
    /\ nodes' = MapInsert(nodes, k, v)
    /\ Returns("Option<V>", MapGet(dup.nodes, k))
    /\ UNCHANGED <<debug_assertions, edges, to, from, curr_edge_id, pc, call, returned,
                   ro, issued, last_insert, sequential, budget, capacity, clone_began,
                   clone_ended, guards, pre>>
\* Graph::insert on the clone
dup_insert(t, k, v) ==
    /\ CanCallDup(t)
    /\ dup' = [dup EXCEPT !.nodes = MapInsert(@, k, v), !.calls = @ + 1]
    /\ Returns("Option<V>", MapGet(dup.nodes, k))
    /\ UNCHANGED <<debug_assertions, nodes, edges, to, from, curr_edge_id, pc, call,
                   returned, ro, issued, last_insert, sequential, budget, capacity,
                   clone_began, clone_ended, guards, pre>>

\* Graph::add_edge on the clone, the whole call: the clone is used by one
\* thread at a time, so no step of another call on it comes in between
dup_add_edge(t, a, b, e) ==
    /\ CanCallDup(t)
    /\ IF debug_assertions /\ ~(MapContains(dup.nodes, a) /\ MapContains(dup.nodes, b))
       THEN /\ pc' = [pc EXCEPT ![t] = "panicked"]
            /\ Returns("()", Panic)
            /\ dup' = [dup EXCEPT !.calls = @ + 1]
       ELSE LET c == [from |-> a, to |-> b, edge |-> e,
                      edge_id |-> next_edge_id_value(dup.curr_edge_id)]
            IN /\ dup' = [dup EXCEPT !.calls = @ + 1,
                                     !.curr_edge_id = next_edge_id_counter(@),
                                     !.edges = MapInsert(@, c.edge_id, c.edge),
                                     !.from = from_after_push(@, c),
                                     !.to = to_after_push(@, c)]
               /\ pc' = pc
               /\ Returns("()", Unit)
    /\ UNCHANGED <<debug_assertions, nodes, edges, to, from, curr_edge_id, call, returned,
                   ro, issued, last_insert, sequential, budget, capacity, clone_began,
                   clone_ended, guards, pre>>

Next ==
    \/ take_result
    \/ \E t \in Threads, k \in Keys, v \in Vals : insert(t, k, v)
    \/ \E t \in Threads, a \in Keys, b \in Keys, e \in EdgeVals : add_edge_assert_from(t, a, b, e)
    \/ \E t \in Threads : add_edge_assert_to(t)
    \/ \E t \in Threads : add_edge_next_edge_id(t)
    \/ \E t \in Threads, a \in Keys, b \in Keys, e \in EdgeVals : add_edge_release(t, a, b, e)
    \/ \E t \in Threads : add_edge_edges_insert(t)
    \/ \E t \in Threads : add_edge_from_push(t)
    \/ \E t \in Threads : add_edge_to_push(t)
    \/ into_read_only
    \/ ro_len
    \/ \E k \in Keys : ro_has_node(k)
    \/ \E k \in Keys : ro_get_node(k)
    \/ \E id \in EdgeIds : ro_get_edge(id)
    \/ \E k \in Keys : edge_ids_from(k)
    \/ \E k \in Keys : edge_ids_to(k)
    \/ \E k \in Keys : iter_edges_from(k)
    \/ \E order \in AllOrders : iter(order)
    \/ \E k \in Keys : index(k)

Spec == Init /\ [][Next]_vars

SpecSeq == InitSeq /\ [][Next]_vars

\* the writers of Next, with a reader calling the accessors of the store
\* between any two of their steps
NextRead ==
    \/ Next
    \/ len
    \/ is_empty
    \/ \E k \in Keys : has_node(k)
    \/ \E k \in Keys : get_node(k)
    \/ \E id \in EdgeIds : get_edge(id)
    \/ \E k \in Keys : edges_from(k)
    \/ \E k \in Keys : edges_to(k)

SpecRead == InitRead /\ [][NextRead]_vars

\* the writers of the store, one clone of it, and the writers of the clone
NextClone ==
    \/ take_result
    \/ \E t \in Threads, k \in Keys, v \in ValsOfStore : insert(t, k, v)
    \/ \E t \in Threads, a \in Keys, b \in Keys, e \in EdgeValsOfStore : add_edge_assert_from(t, a, b, e)
    \/ \E t \in Threads : add_edge_assert_to(t)
    \/ \E t \in Threads : add_edge_next_edge_id(t)
    \/ \E t \in Threads, a \in Keys, b \in Keys, e \in EdgeValsOfStore : add_edge_release(t, a, b, e)
    \/ \E t \in Threads : add_edge_edges_insert(t)
    \/ \E t \in Threads : add_edge_from_push(t)
    \/ \E t \in Threads : add_edge_to_push(t)
    \/ \E t \in Threads : clone(t)
    \/ \E t \in Threads, k \in Keys, v \in ValsOfDup : dup_insert(t, k, v)
    \/ \E t \in Threads, a \in Keys, b \in Keys, e \in EdgeValsOfDup : dup_add_edge(t, a, b, e)

SpecClone == InitClone /\ [][NextClone]_vars

\* ----------------------------------------------------------- shard locks
\* A DashMap operation takes the lock of the shard of its key: insert and
\* entry take it exclusively and wait while any Ref into the shard is alive;
\* get returns a Ref, a shared lock that lasts until its holder drops it.
\* Two keys may or may not share a shard; a key always shares its own.
MapNames == {"nodes", "edges", "to", "from"}

\* the node keys the threads contend for: the calls that can block each
\* other are those whose keys fall into one shard
KeysOfShard == {1}

\* every Ref there can be: <<holder, map, key>>
AllGuards == Threads \X MapNames \X (KeysOfShard \cup (0..MaxEdgesFair))

\* the keys of map m
KeysOf(m) == IF m = "edges" THEN DOMAIN edges ELSE DOMAIN StoreNow[m]

\* no Ref into the shard of key k of map m is alive: the exclusive lock of
\* the shard can be taken
WriteLockFree(m, k) == \A g \in guards : ~(g[2] = m /\ g[3] = k)

\* get_node / get_edge / edges_from / edges_to return Some(Ref) and the
\* caller keeps the Ref
hold_ref(t, m, k) ==
    /\ Alive
    /\ pc[t] = "idle"
    /\ NoResult
    /\ Cardinality(guards) < MaxGuards
    /\ k \in KeysOf(m)
    /\ guards' = guards \cup {<<t, m, k>>}
    /\ UNCHANGED <<debug_assertions, nodes, edges, to, from, curr_edge_id, pc, call,
                   returned, ret_ty, ret, ro, issued, last_insert, sequential, budget,
                   capacity, dup, clone_began, clone_ended, pre>>

drop_ref_mut(g) ==
    /\ g \in guards
    /\ ~Quiet(g[1])
    /\ guards' = guards \ {g}
    /\ UNCHANGED <<debug_assertions, nodes, edges, to, from, curr_edge_id, pc, call,
                   returned, ret_ty, ret, ro, issued, last_insert, sequential, budget,
                   capacity, dup, clone_began, clone_ended, pre>>
\* the holder drops a Ref; a thread inside a call cannot, a thread whose call
\* panicked drops its Refs as the stack unwinds
drop_ref(g) ==
    /\ g \in guards
    /\ Quiet(g[1])
    /\ guards' = guards \ {g}
    /\ UNCHANGED <<debug_assertions, nodes, edges, to, from, curr_edge_id, pc, call,
                   returned, ret_ty, ret, ro, issued, last_insert, sequential, budget,
                   capacity, dup, clone_began, clone_ended, pre>>

\* Graph::insert is called: the thread is about to take the lock of the shard
insert_call(t, k, v) ==
    /\ CanCall(t)
    /\ pc' = [pc EXCEPT ![t] = "insert"]
    /\ call' = [call EXCEPT ![t] = [from |-> k, to |-> k, edge |-> v, edge_id |-> -1]]
    /\ UNCHANGED <<debug_assertions, nodes, edges, to, from, curr_edge_id, returned,
                   ret_ty, ret, ro, issued, last_insert, sequential, budget, other_vars, pre>>

\* self.nodes.insert(key, value), under the exclusive lock of the shard
insert_locked(t) ==
    /\ CanStep(t, "insert")
    /\ WriteLockFree("nodes", call[t].from)
    /\ nodes' = MapInsert(nodes, call[t].from, call[t].edge)
    /\ Returns("Option<V>", MapGet(nodes, call[t].from))
    /\ last_insert' = MapInsert(last_insert, call[t].from, call[t].edge)
    /\ pc' = [pc EXCEPT ![t] = "idle"]
    /\ call' = [call EXCEPT ![t] = NoCall]
    /\ UNCHANGED <<debug_assertions, edges, to, from, curr_edge_id, returned, ro,
                   issued, sequential, budget, other_vars, pre>>

\* the three writes of add_edge, each under the exclusive lock of its shard
add_edge_edges_insert_locked(t) ==
    WriteLockFree("edges", call[t].edge_id) /\ add_edge_edges_insert(t)

add_edge_from_push_locked(t) ==
    WriteLockFree("from", call[t].from) /\ add_edge_from_push(t)

add_edge_to_push_locked(t) ==
    WriteLockFree("to", call[t].to) /\ add_edge_to_push(t)

\* the steps thread t takes inside a call
StepOf(t) ==
    \/ insert_locked(t)
    \/ add_edge_assert_to(t)
    \/ add_edge_next_edge_id(t)
    \/ add_edge_edges_insert_locked(t)
    \/ add_edge_from_push_locked(t)
    \/ add_edge_to_push_locked(t)

NextFair ==
    \/ take_result
    \/ \E t \in Threads, k \in KeysOfShard, v \in ValsOfStore : insert_call(t, k, v)
    \/ \E t \in Threads, a \in KeysOfShard, b \in KeysOfShard, e \in EdgeValsOfStore : add_edge_assert_from(t, a, b, e)
    \/ \E t \in Threads, a \in KeysOfShard, b \in KeysOfShard, e \in EdgeValsOfStore : add_edge_release(t, a, b, e)
    \/ \E t \in Threads : StepOf(t)
    \/ \E g \in AllGuards : hold_ref(g[1], g[2], g[3])
    \/ \E g \in AllGuards : drop_ref(g)

\* fair scheduling: a thread that can take the next step of its call, again
\* and again, takes it; a returned value is taken; a Ref is dropped
Fairness ==
    /\ \A t \in Threads : SF_vars(StepOf(t))
    /\ WF_vars(take_result)
    /\ \A g \in AllGuards : WF_vars(drop_ref(g))

SpecFair == InitFair /\ [][NextFair]_vars /\ Fairness

\* ================================================================ claims
\* no thread is inside a call
Quiescent == \A t \in Threads : Quiet(t)

\* the list filed under k, empty when k has none
ListOf(m, k) == IF k \in DOMAIN m THEN m[k] ELSE << >>

\* the number of adjacency entries of an index, over all its keys
TotalEntries(m) == Cardinality(UNION {{<<k, i>> : i \in 1..Len(m[k])} : k \in DOMAIN m})

\* the places <<key, position>> of an index that hold edge id
Occurrences(m, id) ==
    UNION {{<<k, i>> : i \in {j \in 1..Len(m[k]) : m[k][j][1] = id}} : k \in DOMAIN m}

\* the ids allocated so far
IssuedIds == {issued[i].id : i \in 1..Len(issued)}

\* C1: with no other operation running, add_edge(a, b, e) on present nodes a
\* and b allocates one id; on return the outgoing list of a is the list it had
\* with (id, b) appended, the incoming list of b is the list it had with
\* (id, a) appended, get_edge(id) is e, both entries carry the same id, and
\* every other list and payload is as before.
C1_AddEdgeSequential ==
    [][\A t \in Threads :
         (add_edge_to_push(t) /\ has_node_value(nodes, call[t].from)
                              /\ has_node_value(nodes, call[t].to)) =>
            LET c == call[t]
                id == c.edge_id
            IN /\ pre # NoPre
               /\ id = pre.curr_edge_id
               /\ curr_edge_id' = pre.curr_edge_id + 1
               /\ edges_from_value(from', c.from)
                     = Some(Append(ListOf(pre.from, c.from), <<id, c.to>>))
               /\ edges_to_value(to', c.to)
                     = Some(Append(ListOf(pre.to, c.to), <<id, c.from>>))
               /\ get_edge_value(edges', id) = Some(c.edge)
               /\ from'[c.from][Len(from'[c.from])][1] = to'[c.to][Len(to'[c.to])][1]
               /\ \A k \in Keys \ {c.from} :
                     edges_from_value(from', k) = edges_from_value(pre.from, k)
               /\ \A k \in Keys \ {c.to} :
                     edges_to_value(to', k) = edges_to_value(pre.to, k)
               /\ \A i \in EdgeIds \ {id} :
                     get_edge_value(edges', i) = get_edge_value(pre.edges, i)
      ]_vars

\* a sequential add_edge has just returned after appending to lists that
\* already held an entry
C1_Witness ==
    /\ sequential
    /\ Returned("()", Unit)
    /\ \E a \in DOMAIN from, b \in DOMAIN to :
          /\ a \in DOMAIN nodes /\ b \in DOMAIN nodes
          /\ Len(from[a]) = 2 /\ Len(to[b]) = 2

\* C2: the ids add_edge allocates are 0, 1, 2, ... in allocation order, and
\* no two calls, in any interleaving, hold the same id.
C2_IdsCountFromZero ==
    /\ \A i \in 1..Len(issued) : issued[i].id = i - 1
    /\ \A t, u \in Threads :
          (t # u /\ pc[t] \in {"edges_insert", "from_push", "to_push"}
                 /\ pc[u] \in {"edges_insert", "from_push", "to_push"})
             => call[t].edge_id # call[u].edge_id

\* two threads are inside add_edge at once, each holding its id
C2_Witness ==
    /\ Len(issued) = 2
    /\ \A t \in Threads : pc[t] = "edges_insert"

\* C3: once every add_edge call has returned, whatever the interleaving, the
\* edge map holds exactly one entry per call (the ids issued, none missing,
\* none twice) and each adjacency index holds one entry per call in total.
C3_AllCallsAccounted ==
    Quiescent =>
       /\ returned = Len(issued)
       /\ DOMAIN edges = IssuedIds
       /\ Cardinality(DOMAIN edges) = returned
       /\ TotalEntries(from) = returned
       /\ TotalEntries(to) = returned

\* two calls on existing nodes overlapped (the two indices hold them in
\* opposite orders) and both have returned
C3_Witness ==
    /\ Quiescent
    /\ debug_assertions
    /\ returned = 2
    /\ 1 \in DOMAIN from /\ 1 \in DOMAIN to
    /\ from[1] = << <<0, 1>>, <<1, 1>> >>
    /\ to[1] = << <<1, 1>>, <<0, 1>> >>

\* C4: when no add_edge is in progress, every edge id of the edge map occurs
\* exactly once in the outgoing index, under its source key and paired with
\* its destination key, and exactly once in the incoming index, under its
\* destination key and paired with its source key.
C4_AdjacencyMatchesEdges ==
    Quiescent =>
       \A id \in DOMAIN edges :
          \E i \in 1..Len(issued) :
             /\ issued[i].id = id
             /\ get_edge_value(edges, id) = Some(issued[i].edge)
             /\ Cardinality(Occurrences(from, id)) = 1
             /\ Cardinality(Occurrences(to, id)) = 1
             /\ \A o \in Occurrences(from, id) :
                   o[1] = issued[i].from /\ from[o[1]][o[2]][2] = issued[i].to
             /\ \A o \in Occurrences(to, id) :
                   o[1] = issued[i].to /\ to[o[1]][o[2]][2] = issued[i].from

\* two edges between different keys, in opposite directions, are stored
C4_Witness ==
    /\ Quiescent
    /\ Len(issued) = 2
    /\ issued[1].from = 1 /\ issued[1].to = 2
    /\ issued[2].from = 2 /\ issued[2].to = 1
    /\ DOMAIN nodes = Keys

\* C5: insert(k, v) returns the payload of the preceding insert under k, None
\* if there was none, and afterwards get_node(k) is v.
C5_InsertReturnsPrevious ==
    [][\A t \in Threads, k \in Keys, v \in Vals :
         insert(t, k, v) =>
            /\ ret' = MapGet(last_insert, k)
            /\ get_node_value(nodes', k) = Some(v)
      ]_vars

\* an insert has just overwritten a payload: it returned a payload that no
\* key holds any more
C5_Witness ==
    /\ Alive
    /\ ret_ty = "Option<V>"
    /\ ret # None
    /\ nodes # EmptyMap
    /\ \A k \in DOMAIN nodes : nodes[k] # ret.val

\* C6: the view made by into_read_only answers every read as the store did
\* just before: len, has_node and get_node for every key, get_edge for every
\* id, both adjacency lists for every key; and once the view exists neither
\* it nor the maps it was made from change again.
C6_FreezePreservesAnswers ==
    [][/\ into_read_only =>
            /\ ro_len_value(ro') = Cardinality(DOMAIN nodes)
            /\ \A k \in Keys :
                  /\ ro_has_node_value(ro', k) = has_node_value(nodes, k)
                  /\ ro_get_node_value(ro', k) = get_node_value(nodes, k)
                  /\ edge_ids_from_value(ro', k) = edges_from_value(from, k)
                  /\ edge_ids_to_value(ro', k) = edges_to_value(to, k)
            /\ \A id \in EdgeIds :
                  ro_get_edge_value(ro', id) = get_edge_value(edges, id)
       /\ ~Alive => (ro' = ro /\ UNCHANGED <<nodes, edges, to, from, curr_edge_id>>)
      ]_vars

\* a store with two nodes and an edge between them has been frozen
C6_Witness ==
    /\ ~Alive
    /\ DOMAIN ro.nodes = Keys
    /\ ro.edges # EmptyMap
    /\ ro.from # ro.to

\* the issued calls whose edge the iteration may meet, as payload triples of
\* the view
ExpectedTriple(r, c) == <<r.nodes[c.from], c.edge, r.nodes[c.to]>>

\* every key named by an add_edge call is a node of the view
EndpointsPresent(r) ==
    \A i \in 1..Len(issued) :
       issued[i].from \in DOMAIN r.nodes /\ issued[i].to \in DOMAIN r.nodes

\* res is a full iteration of the view in the given order: one triple per
\* issued edge, no edge twice, each triple the payloads of its edge
IterIsComplete(r, order, res) ==
    /\ res # Panic
    /\ Len(res.val) = Len(issued)
    /\ LET vs == IterVisits(r, order) IN
       /\ Len(vs) = Len(res.val)
       /\ \A i \in 1..Len(issued) :
             \E j \in 1..Len(vs) :
                /\ vs[j][2][1] = issued[i].id
                /\ \A j2 \in 1..Len(vs) : vs[j2][2][1] = issued[i].id => j2 = j
                /\ res.val[j] = ExpectedTriple(r, issued[i])

\* C7 as stated: iter on the view yields one triple per added edge, none
\* twice, whatever calls preceded the freeze, dangling endpoints included.
C7_IterYieldsEveryEdge_Original ==
    [][\A order \in AllOrders : iter(order) => IterIsComplete(ro, order, ret')]_vars

\* C7 (amended): iter on the view yields one triple per added edge, none
\* twice, provided every source and destination key of the added edges is a
\* node of the view; otherwise it panics or yields fewer triples than edges.
C7_IterYieldsEveryEdge ==
    [][\A order \in AllOrders :
         iter(order) =>
            IF EndpointsPresent(ro)
            THEN IterIsComplete(ro, order, ret')
            ELSE ret' = Panic \/ Len(ret'.val) < Len(issued)
      ]_vars

\* iter has just yielded the triples of two edges that leave different keys
C7_Witness ==
    /\ ~Alive
    /\ EndpointsPresent(ro)
    /\ Len(issued) = 2
    /\ issued[1].from # issued[2].from
    /\ ret_ty = "impl Iterator"
    /\ ret \in {Some(<<ExpectedTriple(ro, issued[1]), ExpectedTriple(ro, issued[2])>>),
                Some(<<ExpectedTriple(ro, issued[2]), ExpectedTriple(ro, issued[1])>>)}

\* res is one triple per entry of the outgoing list of k, in list order
TriplesOfList(r, k, res) ==
    /\ res # Panic
    /\ res # None
    /\ LET l == r.from[k] IN
       /\ Len(res.val) = Len(l)
       /\ \A i \in 1..Len(l) :
             /\ ro_get_node_value(r, k) = Some(res.val[i][1])
             /\ ro_get_edge_value(r, l[i][1]) = Some(res.val[i][2])
             /\ ro_get_node_value(r, l[i][2]) = Some(res.val[i][3])

\* the entries iter visits under source key k, in visiting order
RECURSIVE VisitsOf(_, _)
VisitsOf(vs, k) ==
    IF vs = << >> THEN << >>
    ELSE (IF Head(vs)[1] = k THEN <<Head(vs)[2]>> ELSE << >>) \o VisitsOf(Tail(vs), k)

\* the triples of res that iter produced for source key k, in order
RECURSIVE TriplesOf(_, _, _)
TriplesOf(vs, res, k) ==
    IF vs = << >> THEN << >>
    ELSE (IF Head(vs)[1] = k THEN <<Head(res)>> ELSE << >>)
            \o TriplesOf(Tail(vs), Tail(res), k)

\* C8 as stated: iter_edges_from(key) yields one triple per entry of the
\* outgoing list of key, in list order, for every key with such a list.
C8_EdgesFromInListOrder_Original ==
    [][\A k \in Keys :
         (iter_edges_from(k) /\ k \in DOMAIN ro.from) => TriplesOfList(ro, k, ret')
      ]_vars

\* the key is a node and so is every destination key of its outgoing list
ListResolves(r, k) ==
    /\ k \in DOMAIN r.nodes
    /\ \A i \in 1..Len(ListOf(r.from, k)) : r.from[k][i][2] \in DOMAIN r.nodes

\* C8 (amended): for a key that is a node and whose outgoing entries all name
\* nodes, iter_edges_from(key) yields one triple per entry of its outgoing
\* list, in list order (key payload, payload of the entry's edge, payload of
\* the entry's destination); the view never changes, so a second call yields
\* the same; and the triples iter yields for that key come in list order too.
C8_EdgesFromInListOrder ==
    [][/\ \A k \in Keys :
            (iter_edges_from(k) /\ k \in DOMAIN ro.from /\ ListResolves(ro, k))
               => TriplesOfList(ro, k, ret')
       /\ \A k \in Keys : iter_edges_from(k) => ro' = ro
       /\ \A order \in AllOrders :
            (iter(order) /\ ret' # Panic) =>
               \A k \in DOMAIN ro.nodes :
                  /\ VisitsOf(IterVisits(ro, order), k) = ListOf(ro.from, k)
                  /\ ListResolves(ro, k) /\ k \in DOMAIN ro.from =>
                        TriplesOfList(ro, k,
                            Some(TriplesOf(IterVisits(ro, order), ret'.val, k)))
      ]_vars

\* iter_edges_from has just yielded two different triples of one key, in the
\* order its two edges were added
C8_Witness ==
    /\ ~Alive
    /\ Len(issued) = 2
    /\ issued[1].from = issued[2].from
    /\ ListResolves(ro, issued[1].from)
    /\ ExpectedTriple(ro, issued[1]) # ExpectedTriple(ro, issued[2])
    /\ Returned("Option<impl Iterator>",
                Some(<<ExpectedTriple(ro, issued[1]), ExpectedTriple(ro, issued[2])>>))
    /\ Len(ro.from[issued[1].from]) = 2

\* C9: indexing the view by a key that was never inserted panics and returns
\* no payload; indexing by an inserted key returns the payload get_node has.
C9_IndexAbortsOnAbsent ==
    [][\A k \in Keys :
         index(k) =>
            /\ k \notin DOMAIN last_insert => ret' = Panic
            /\ k \in DOMAIN last_insert =>
                  /\ ret' # Panic
                  /\ ret' = ro_get_node_value(ro, k)
      ]_vars

\* the view has a node but no edge, and an index by the other key panicked
C9_Witness ==
    /\ ~Alive
    /\ Returned("&V", Panic)
    /\ ro.from = EmptyMap
    /\ ro.nodes # EmptyMap
    /\ DOMAIN last_insert # Keys

\* an add_edge call has appended under k to the outgoing (incoming) index
RecordedFrom(k) ==
    \E i \in 1..Len(issued) :
       /\ issued[i].from = k
       /\ \A t \in Threads :
             pc[t] \in {"edges_insert", "from_push"} => call[t].edge_id # issued[i].id
RecordedTo(k) ==
    \E i \in 1..Len(issued) :
       /\ issued[i].to = k
       /\ \A t \in Threads :
             pc[t] \in {"edges_insert", "from_push", "to_push"}
                => call[t].edge_id # issued[i].id

\* C10: on the store and on the view, an accessor asked for an unknown key or
\* id returns None (has_node: false) and changes no map, nor the counter; an
\* adjacency accessor returns None exactly when no add_edge has recorded an
\* entry under the key, node or not.
C10_AccessorsReturnAbsent ==
    [][/\ \A k \in Keys :
            /\ (get_node(k) \/ ro_get_node(k)) =>
                  (k \notin DOMAIN last_insert => ret' = None)
            /\ (has_node(k) \/ ro_has_node(k)) =>
                  (k \notin DOMAIN last_insert => ret' = FALSE)
            /\ (edges_from(k) \/ edge_ids_from(k)) => (ret' = None <=> ~RecordedFrom(k))
            /\ (edges_to(k) \/ edge_ids_to(k)) => (ret' = None <=> ~RecordedTo(k))
       /\ \A id \in EdgeIds :
            (get_edge(id) \/ ro_get_edge(id)) => (id \notin IssuedIds => ret' = None)
       /\ (\/ \E k \in Keys : \/ get_node(k) \/ has_node(k) \/ edges_from(k) \/ edges_to(k)
                              \/ ro_get_node(k) \/ ro_has_node(k)
                              \/ edge_ids_from(k) \/ edge_ids_to(k)
           \/ \E id \in EdgeIds : get_edge(id) \/ ro_get_edge(id))
             => UNCHANGED <<nodes, edges, to, from, curr_edge_id, ro>>
      ]_vars

\* both keys are nodes, an edge 1 -> 2 is stored, nothing was recorded under
\* 2 in the outgoing index, and an accessor has just returned None
C10_Witness ==
    /\ Alive
    /\ debug_assertions
    /\ Quiescent
    /\ Len(issued) = 1
    /\ issued[1].from = 1 /\ issued[1].to = 2
    /\ DOMAIN nodes = Keys
    /\ 2 \notin DOMAIN from
    /\ Returned("Option<Ref<K, Vec<(EdgeId, K)>>>", None)
IssuedWith(id) == {i \in 1..Len(issued) : issued[i].id = id}

AbortsAtCheck(t) ==
    /\ ret_ty' = "()" /\ ret' = Panic
    /\ pc'[t] = "panicked"
    /\ call[t].edge_id = -1
    /\ issued' = issued
    /\ UNCHANGED <<nodes, edges, to, from, curr_edge_id>>

\* C12: in a non-optimized build add_edge(a, b, e) panics at its first check
\* when a is no node and at its second when b is no node, before an id is
\* allocated and with the counter, the edge map and both indices untouched,
\* so a call that allocates has found both keys; in an optimized build the
\* call on an absent key completes and files (id, b) under a and (id, a)
\* under b.
C12_AssertAbortsBeforeAllocation ==
    [][/\ \A t \in Threads, a \in Keys, b \in Keys, e \in EdgeVals :
            (add_edge_assert_from(t, a, b, e) /\ ~has_node_value(nodes, a))
               => AbortsAtCheck(t)
       /\ \A t \in Threads :
            (add_edge_assert_to(t) /\ ~has_node_value(nodes, call[t].to))
               => AbortsAtCheck(t)
       /\ \A t \in Threads :
            add_edge_next_edge_id(t) =>
               /\ has_node_value(nodes, call[t].from)
               /\ has_node_value(nodes, call[t].to)
       /\ \A t \in Threads :
            (add_edge_to_push(t) /\ ~debug_assertions
               /\ ~(has_node_value(nodes, call[t].from) /\ has_node_value(nodes, call[t].to)))
               => LET c == call[t] IN
                  /\ ret_ty' = "()" /\ ret' = Unit
                  /\ get_edge_value(edges', c.edge_id) = Some(c.edge)
                  /\ \E i \in 1..Len(from'[c.from]) : from'[c.from][i] = <<c.edge_id, c.to>>
                  /\ \E i \in 1..Len(to'[c.to]) : to'[c.to][i] = <<c.edge_id, c.from>>
      ]_vars

\* non-optimized build: after one edge was added, a call whose destination is
\* no node has panicked, and the store still holds that one edge only
C12_Witness ==
    /\ debug_assertions
    /\ Returned("()", Panic)
    /\ DOMAIN nodes = {1}
    /\ curr_edge_id = 1
    /\ DOMAIN edges = {0}
    /\ TotalEntries(from) = 1 /\ TotalEntries(to) = 1

\* the adjacency list an accessor returned holds an entry of edge id
ListHolds(r, id) == r # None /\ \E i \in 1..Len(r.val) : r.val[i][1] = id

\* C13: the three writes of add_edge are separate steps.  While a call is
\* between its payload write and its first push, a reader gets the payload
\* from get_edge and finds the id in neither adjacency list; while it is
\* between its two pushes, the reader finds the id in the outgoing list of
\* the source and not in the incoming list of the destination.
C13_WritesNotJointlyAtomic ==
    [][\A t \in Threads :
         LET c == call[t] IN
         /\ pc[t] = "from_push" =>
               /\ get_edge(c.edge_id) => ret' = Some(c.edge)
               /\ edges_from(c.from) => ~ListHolds(ret', c.edge_id)
               /\ edges_to(c.to) => ~ListHolds(ret', c.edge_id)
         /\ pc[t] = "to_push" =>
               /\ get_edge(c.edge_id) => ret' = Some(c.edge)
               /\ edges_from(c.from) => ListHolds(ret', c.edge_id)
               /\ edges_to(c.to) => ~ListHolds(ret', c.edge_id)
      ]_vars

\* a reader has just got the outgoing entry of an edge from edges_from while
\* the add_edge call has not yet pushed the incoming entry
C13_Witness ==
    /\ \E t \in Threads : pc[t] = "to_push" /\ call[t].from = 1 /\ call[t].to = 2
    /\ Returned("Option<Ref<K, Vec<(EdgeId, K)>>>", Some(<< <<0, 2>> >>))
    /\ edges_to_value(to, 2) = None
    /\ get_edge_value(edges, 0) # None

\* the keys inserted so far
Inserted == DOMAIN last_insert

\* C16: len is the number of distinct keys inserted so far and is_empty
\* holds exactly when that number is 0; a new store, whatever its capacity,
\* has len 0 and is empty; insert of a new key raises len by one, insert of
\* an existing key and every step of add_edge leave it as it is.
C16_LenCountsKeys ==
    [][/\ len => ret' = Cardinality(Inserted)
       /\ is_empty => ret' = (Cardinality(Inserted) = 0)
       /\ is_empty_value(nodes) = (len_value(nodes) = 0)
       /\ (Inserted = {} /\ curr_edge_id = 0) =>
             (len_value(nodes) = 0 /\ is_empty_value(nodes))
       /\ \A t \in Threads, k \in Keys, v \in Vals :
             insert(t, k, v) =>
                len_value(nodes') = len_value(nodes) + (IF k \in Inserted THEN 0 ELSE 1)
       /\ (curr_edge_id' # curr_edge_id \/ edges' # edges \/ from' # from \/ to' # to
             \/ \E t \in Threads : add_edge_assert_to(t))
             => len_value(nodes') = len_value(nodes)
      ]_vars

\* a store created with capacity 10 holds one node, inserted twice, and one
\* edge, and len has just returned 1
C16_Witness ==
    /\ capacity = 10
    /\ Alive
    /\ Returned("usize", 1)
    /\ DOMAIN nodes = {1}
    /\ nodes[1] = "Bob"
    /\ returned = 1

\* the edge ids that the entries of an adjacency index carry
IdsOf(m) == UNION {{m[k][i][1] : i \in 1..Len(m[k])} : k \in DOMAIN m}

\* C17: in every state of the store, whatever the interleaving of add_edge
\* calls, each edge id carried by an entry of the outgoing or of the incoming
\* index has its payload in the edge map, so get_edge finds it.
C17_PayloadBeforeAdjacency ==
    \A id \in IdsOf(from) \cup IdsOf(to) : get_edge_value(edges, id) # None

\* one call has pushed its outgoing entry and not yet its incoming one while
\* another holds an id whose payload is not yet written
C17_Witness ==
    /\ \E t, u \in Threads : pc[t] = "to_push" /\ pc[u] = "edges_insert"
    /\ IdsOf(from) # {}
    /\ IdsOf(to) = {}
    /\ Cardinality(DOMAIN edges) = 1

\* thread t takes a step of add_edge: each step of the call moves the
\* position of its thread, and no other operation of the store does
AddEdgeStep(t) == pc'[t] # pc[t]

\* C18: insert, of a new or of an existing key, leaves the edge map, both
\* adjacency indices and the counter as they are, so the entries that name
\* the key stay; every step of add_edge leaves the node map as it is, also
\* when an endpoint is no node.
C18_WritesStayInTheirMaps ==
    [][/\ \A t \in Threads, k \in Keys, v \in Vals :
            insert(t, k, v) =>
               /\ UNCHANGED <<edges, to, from, curr_edge_id>>
               /\ \A id \in EdgeIds : Occurrences(from', id) = Occurrences(from, id)
                                       /\ Occurrences(to', id) = Occurrences(to, id)
       /\ \A t \in Threads : AddEdgeStep(t) => nodes' = nodes
      ]_vars

\* an insert has just overwritten the payload of a node that an edge leaves
\* and enters, and the edge and its two entries are still there
C18_Witness ==
    /\ Returned("Option<V>", Some("Alice"))
    /\ DOMAIN nodes = {1}
    /\ nodes[1] = "Bob"
    /\ edges_from_value(from, 1) = Some(<< <<0, 1>> >>)
    /\ edges_to_value(to, 1) = Some(<< <<0, 1>> >>)
    /\ get_edge_value(edges, 0) # None

\* thread t takes the last step of clone, and no thread was inside a call
\* when the clone began nor has the store been written since
QuietCloneEnds(t) ==
    /\ clone(t)
    /\ Cloned'
    /\ clone_began.quiet
    /\ clone_began.store = StoreNow

\* thread t allocates an edge id on the store
Allocates(t) == pc[t] \in {"idle", "next_edge_id"} /\ pc'[t] = "edges_insert"

\* C14: a clone made with no write in between copies the counter value c of
\* the store; the first add_edge on the clone then stores its edge under id
\* c, and so does the next add_edge on the store itself: the two counters
\* are separate and both start from c.
C14_CloneRepeatsIds ==
    [][/\ \A t \in Threads : QuietCloneEnds(t) => dup'.curr_edge_id = curr_edge_id
       /\ (Cloned /\ clone_ended.quiet) =>
             LET c == clone_ended.curr_edge_id IN
             /\ \A t \in Threads, a \in Keys, b \in Keys, e \in EdgeValsOfDup :
                   (dup.curr_edge_id = c /\ dup_add_edge(t, a, b, e) /\ ret' = Unit) =>
                      /\ c \notin DOMAIN dup.edges
                      /\ get_edge_value(dup'.edges, c) = Some(e)
                      /\ \E i \in 1..Len(dup'.from[a]) : dup'.from[a][i] = <<c, b>>
                      /\ curr_edge_id' = curr_edge_id
             /\ \A t \in Threads :
                   (curr_edge_id = c /\ Allocates(t)) =>
                      /\ call'[t].edge_id = c
                      /\ dup' = dup
      ]_vars

\* the store and its clone each hold an edge under the id the counter had
\* when the clone was made, and the two edges differ
C14_Witness ==
    /\ Cloned
    /\ clone_ended.quiet
    /\ LET c == clone_ended.curr_edge_id IN
       /\ get_edge_value(edges, c) = Some("Follows")
       /\ get_edge_value(dup.edges, c) = Some("Blocks")
       /\ curr_edge_id = dup.curr_edge_id

\* C15: a clone made with no write in between has the five fields of the
\* store, and no step of clone writes the store; afterwards the two are
\* independent: insert and add_edge on the store leave the clone as it is,
\* insert and add_edge on the clone leave the store as it is.
C15_CloneIsIndependentCopy ==
    [][/\ \A t \in Threads : clone(t) => UNCHANGED <<nodes, edges, to, from, curr_edge_id>>
       /\ \A t \in Threads :
             QuietCloneEnds(t) =>
                /\ dup'.nodes = nodes /\ dup'.edges = edges
                /\ dup'.to = to /\ dup'.from = from
                /\ dup'.curr_edge_id = curr_edge_id
       /\ Cloned =>
             /\ \A t \in Threads, k \in Keys :
                   (\E v \in ValsOfStore : insert(t, k, v)) => dup' = dup
             /\ \A t \in Threads : AddEdgeStep(t) => (dup' = dup \/ UNCHANGED store)
             /\ dup' # dup => UNCHANGED <<nodes, edges, to, from, curr_edge_id>>
      ]_vars

\* after a clone of the empty store, made with no write in between, a node
\* was inserted into the store and another into the clone
C15_Witness ==
    /\ Cloned
    /\ clone_ended.quiet
    /\ DOMAIN nodes = {1}
    /\ DOMAIN dup.nodes = {2}
    /\ Returned("Option<V>", None)

\* C20: the clone returned while add_edge runs on the store is one state of
\* the store: every id in an adjacency index of the clone has its payload in
\* the edge map of the clone and, once no add_edge is in progress on the
\* store, an id in the outgoing index of the clone is in its incoming index.
C20_CloneIsPointInTime ==
    (Cloned /\ dup.calls = 0) =>
       /\ \A id \in IdsOf(dup.from) \cup IdsOf(dup.to) : get_edge_value(dup.edges, id) # None
       /\ Quiescent => IdsOf(dup.from) \subseteq IdsOf(dup.to)

CallsWhileHolding == \E g \in guards : ~Quiet(g[1])

DupIds == DOMAIN dup.edges \cup IdsOf(dup.to) \cup IdsOf(dup.from)

\* C21: the counter of a clone that has been returned, whenever it was taken,
\* is greater than every edge id in the clone's edges, to and from maps, so
\* the next id add_edge allocates on the clone is not one the clone holds.
C21_CloneCounterAboveIds ==
    Cloned =>
       /\ \A id \in DupIds : id < dup.curr_edge_id
       /\ next_edge_id_value(dup.curr_edge_id) \notin DupIds

\* a clone taken in the middle of an add_edge call on the original (it holds
\* an id in its outgoing index without the payload), on which add_edge has
\* since allocated a further id
C21_Witness ==
    /\ Cloned
    /\ \E id \in IdsOf(dup.from) : id \notin DOMAIN dup.edges
    /\ dup.calls > 0
    /\ \E id \in DOMAIN dup.edges : id > 0

\* every entry of the outgoing index of view r names an edge id of its edge
\* map and a key of its node map
OutgoingResolves(r) ==
    \A k \in DOMAIN r.from : \A i \in 1..Len(r.from[k]) : Unwraps(r, r.from[k][i])

\* C22: in a non-optimized build, where every add_edge call that wrote
\* anything passed both node checks, the view made by into_read_only has
\* every outgoing entry naming an edge of the edge map and a node of the node
\* map; iter_edges_from and iter never panic on it, in any visiting order;
\* and iter_edges_from(k) is None exactly when k is no node or has no
\* outgoing list.
C22_DebugViewNeverUnwrapsAbsent ==
    (debug_assertions /\ ~Alive) =>
       /\ OutgoingResolves(ro)
       /\ \A k \in Keys :
             /\ iter_edges_from_value(ro, k) # Panic
             /\ iter_edges_from_value(ro, k) = None
                   <=> (k \notin DOMAIN ro.nodes \/ k \notin DOMAIN ro.from)
       /\ \A order \in Orders(DOMAIN ro.nodes) : iter_value(ro, order) # Panic

\* non-optimized build: one add_edge call panicked at a node check, two
\* others wrote their edges, and iter on the view has yielded both triples
C22_Witness ==
    /\ debug_assertions
    /\ ~Alive
    /\ \E t \in Threads : pc[t] = "panicked"
    /\ Len(issued) = 2
    /\ Cardinality(DOMAIN ro.nodes) < Cardinality(Keys)
    /\ ret_ty = "impl Iterator"
    /\ ret # Panic
    /\ Len(ret.val) = 2

====
